---- MODULE Spec2Model ----
(***************************************************************************)
(* Model of the NLI fine-tuning glue code:                                 *)
(*   src/src/model/nlitransformer.py   (BertForNLI, T5ForNLI and their     *)
(*                                      common base class)                 *)
(*   src/src/infersent/src/InferSent/mutils.py   (get_optimizer,           *)
(*                                      write_to_csv, write_results_to_csv)*)
(*                                                                         *)
(* Probabilities are exact integers in units of 1e-9, so that the additive *)
(* epsilon of BertForNLI._step is the integer 1 and a softmax row sums to  *)
(* ProbOne.  Means are kept as exact fractions [num, den]; the mean of an  *)
(* empty selection is the fraction 0/0 (numpy's NaN).                      *)
(***************************************************************************)
EXTENDS Integers, Sequences, FiniteSets, TLC

VARIABLES
    cls,            \* class of the module instance: "BertForNLI" or "T5ForNLI"
    hparams,        \* self.hparams (the fields configure_optimizers reads)
    train_steps,    \* self.trainer.estimated_stepping_batches
    conf_out,       \* outcome of configure_optimizers
    batch,          \* the batch handed to _step
    step_out,       \* outcome of the last _step
    results_list,   \* per-batch results collected for the running epoch
    logged,         \* metrics written by self.log at epoch end
    epoch_out,      \* outcome of the last _epoch_end
    split,          \* "Train" or "Valid": the loop the results are collected in
    opt_s,          \* the optimizer string handed to get_optimizer
    opt_out,        \* outcome of get_optimizer
    outputfile,     \* the CSV file: whether it exists, and its text
    csv_call        \* the last call of a CSV writer: arguments and outcome

vars == <<cls, hparams, train_steps, conf_out, batch, step_out,
          results_list, logged, epoch_out, split, opt_s, opt_out,
          outputfile, csv_call>>

confVars  == <<hparams, train_steps, conf_out>>
stepVars  == <<batch, step_out>>
epochVars == <<results_list, logged, epoch_out, split>>
optVars   == <<opt_s, opt_out>>
csvVars   == <<outputfile, csv_call>>

----------------------------------------------------------------------------
(* Python values                                                           *)

\* Python's None and a supplied value, as a sequence of length 0 or 1.
None == <<>>
Some(v) == <<v>>
IsNone(o) == Len(o) = 0

\* An exact fraction, for the float hyper-parameters and for means.
Frac(n, d) == [num |-> n, den |-> d]
\* The fraction 0/0 stands for NaN, which equals nothing.
IsNaN(f) == f.den = 0
FracEq(a, b) == ~IsNaN(a) /\ ~IsNaN(b) /\ a.num * b.den = b.num * a.den

\* bool(x) of an optional int (None and 0 are falsy).
TruthyInt(o) == ~IsNone(o) /\ o[1] # 0
\* bool(x) of an optional float (None and 0.0 are falsy).
TruthyFloat(o) == ~IsNone(o) /\ o[1].num # 0

Classes == {"BertForNLI", "T5ForNLI"}

\* The outcome of a call that has not been made yet.
Pending == [kind |-> "pending"]

----------------------------------------------------------------------------
(* configure_optimizers                                                    *)

MaxWarmupSteps == 2
RatioDen == 2
MaxTrainSteps == 2

OptimizerNames == {"adamw", "adam", "sgd"}
SchedulerNames == {"linear", "polynomial", "cosine"}

HParams ==
    [optimizer_name : OptimizerNames,
     scheduler_name : SchedulerNames,
     warmup_steps : {None} \cup {Some(n) : n \in 0..MaxWarmupSteps},
     warmup_ratio : {None} \cup {Some(Frac(k, RatioDen)) : k \in 0..RatioDen}]

ConfRaise(site) ==
    [kind |-> "raise", exc |-> "ValueError", site |-> site,
     optimizers |-> <<>>, schedulers |-> <<>>]

ConfReturn(opt, sched, warmup, steps) ==
    [kind |-> "return", exc |-> "", site |-> "",
     optimizers |-> <<opt>>,
     schedulers |-> <<[scheduler |-> sched, interval |-> "step", frequency |-> 1,
                       num_warmup_steps |-> warmup,
                       num_training_steps |-> steps]>>]

\* The optimizer chosen by name, or "" for the else branch.
SelectOptimizer(hp) ==
    IF hp.optimizer_name = "adamw" THEN "AdamW"
    ELSE IF hp.optimizer_name = "adam" THEN "Adam"
    ELSE ""

\* The scheduler chosen by name, or the ValueError of the else branch.
SelectScheduler(hp, opt, warmup, steps) ==
    IF hp.scheduler_name = "linear"
        THEN ConfReturn(opt, "linear_schedule_with_warmup", warmup, steps)
    ELSE IF hp.scheduler_name = "polynomial"
        THEN ConfReturn(opt, "polynomial_decay_schedule_with_warmup", warmup, steps)
    ELSE ConfRaise("scheduler_name")

\* T5ForNLI.configure_optimizers: the warmup choice tests truthiness.
T5_configure_optimizers(hp, steps) ==
    LET opt == SelectOptimizer(hp) IN
    IF opt = "" THEN ConfRaise("optimizer_name")
    ELSE IF ~IsNone(hp.warmup_ratio) /\ ~IsNone(hp.warmup_steps)
        THEN ConfRaise("warmup_both")
    ELSE IF TruthyInt(hp.warmup_steps)
        THEN SelectScheduler(hp, opt, Frac(hp.warmup_steps[1], 1), steps)
    ELSE IF TruthyFloat(hp.warmup_ratio)
        THEN SelectScheduler(hp, opt,
                 Frac(steps * hp.warmup_ratio[1].num, hp.warmup_ratio[1].den), steps)
    ELSE ConfRaise("warmup_none")

\* BertForNLI.configure_optimizers: the warmup choice tests "is not None".
Bert_configure_optimizers(hp, steps) ==
    LET opt == SelectOptimizer(hp) IN
    IF opt = "" THEN ConfRaise("optimizer_name")
    ELSE IF ~IsNone(hp.warmup_ratio) /\ ~IsNone(hp.warmup_steps)
        THEN ConfRaise("warmup_both")
    ELSE IF ~IsNone(hp.warmup_steps)
        THEN SelectScheduler(hp, opt, Frac(hp.warmup_steps[1], 1), steps)
    ELSE IF ~IsNone(hp.warmup_ratio)
        THEN SelectScheduler(hp, opt,
                 Frac(steps * hp.warmup_ratio[1].num, hp.warmup_ratio[1].den), steps)
    ELSE ConfRaise("warmup_none")

T5ConfigureOptimizers ==
    /\ cls = "T5ForNLI"
    /\ conf_out.kind = "pending"
    /\ conf_out' = T5_configure_optimizers(hparams, train_steps)
    /\ UNCHANGED <<cls, hparams, train_steps, stepVars, epochVars, optVars, csvVars>>

BertConfigureOptimizers ==
    /\ cls = "BertForNLI"
    /\ conf_out.kind = "pending"
    /\ conf_out' = Bert_configure_optimizers(hparams, train_steps)
    /\ UNCHANGED <<cls, hparams, train_steps, stepVars, epochVars, optVars, csvVars>>

IdleConf ==
    /\ hparams = [optimizer_name |-> "adamw", scheduler_name |-> "linear",
                  warmup_steps |-> None, warmup_ratio |-> None]
    /\ train_steps = 1
    /\ conf_out = Pending
IdleStep == batch = <<>> /\ step_out = Pending
IdleEpoch ==
    results_list = <<>> /\ logged = {} /\ epoch_out = Pending /\ split = "Train"
IdleOpt == opt_s = <<>> /\ opt_out = Pending
IdleCsv == outputfile = [exists |-> FALSE, text |-> <<>>] /\ csv_call = Pending

InitConf ==
    /\ cls \in Classes
    /\ hparams \in HParams
    /\ train_steps \in 1..MaxTrainSteps
    /\ conf_out = Pending
    /\ IdleStep /\ IdleEpoch /\ IdleOpt /\ IdleCsv

NextConf == T5ConfigureOptimizers \/ BertConfigureOptimizers

SpecConf == InitConf /\ [][NextConf]_vars

\* Exactly one of warmup_steps / warmup_ratio is supplied (is not None).
WarmupBoth == ~IsNone(hparams.warmup_steps) /\ ~IsNone(hparams.warmup_ratio)
WarmupNeither == IsNone(hparams.warmup_steps) /\ IsNone(hparams.warmup_ratio)
WarmupValid == ~WarmupBoth /\ ~WarmupNeither

\* The warmup length the supplied hyper-parameter stands for.
WarmupAsked ==
    IF ~IsNone(hparams.warmup_steps) THEN Frac(hparams.warmup_steps[1], 1)
    ELSE Frac(train_steps * hparams.warmup_ratio[1].num, hparams.warmup_ratio[1].den)

KnownOptimizer == hparams.optimizer_name \in {"adamw", "adam"}
KnownScheduler == hparams.scheduler_name \in {"linear", "polynomial"}
WarmupRejected ==
    conf_out.kind = "raise" /\ conf_out.site \in {"warmup_both", "warmup_none"}

\* C1: in configure_optimizers of both classes, with a valid optimizer_name, the
\* warmup specification is rejected with a ValueError if and only if warmup_steps
\* and warmup_ratio are both supplied or both missing; when exactly one is
\* supplied (any value, 0 included) no warmup error is raised and the warmup
\* length handed to the scheduler is warmup_steps or train_steps * warmup_ratio.
C1_WarmupRejectedIffBothOrNeither ==
    (conf_out.kind # "pending" /\ KnownOptimizer) =>
        /\ WarmupRejected <=> (WarmupBoth \/ WarmupNeither)
        /\ conf_out.kind = "raise" => conf_out.exc = "ValueError"
        /\ (WarmupValid /\ conf_out.kind = "return") =>
               FracEq(conf_out.schedulers[1].num_warmup_steps, WarmupAsked)

\* C9: configure_optimizers of both classes raises ValueError and returns nothing
\* for every unknown optimizer_name and for every unknown scheduler_name; with a
\* known optimizer, a known scheduler and a valid warmup specification it returns
\* exactly one optimizer and one step-interval scheduler.
C9_ConfigureRaisesOrReturnsOnePair ==
    conf_out.kind # "pending" =>
        /\ (~KnownOptimizer \/ ~KnownScheduler) =>
               /\ conf_out.kind = "raise" /\ conf_out.exc = "ValueError"
               /\ conf_out.optimizers = <<>> /\ conf_out.schedulers = <<>>
        /\ (KnownOptimizer /\ KnownScheduler /\ WarmupValid) =>
               /\ conf_out.kind = "return"
               /\ Len(conf_out.optimizers) = 1
               /\ Len(conf_out.schedulers) = 1
               /\ conf_out.schedulers[1].interval = "step"

----------------------------------------------------------------------------
(* Constants of src/constants.py (not part of the sources at hand)         *)

DATASET_TO_INTEGER ==
    [mnli_train |-> 0, snli_train |-> 1, hans_train |-> 2, hans_validation |-> 3]
MNLI_DATASET_INTEGER_IDENTIFIERS == {DATASET_TO_INTEGER["mnli_train"]}
SNLI_DATASET_INTEGER_IDENTIFIERS == {DATASET_TO_INTEGER["snli_train"]}
HANS_DATASET_INTEGER_IDENTIFIERS ==
    {DATASET_TO_INTEGER["hans_train"], DATASET_TO_INTEGER["hans_validation"]}
Datasets == {DATASET_TO_INTEGER[k] : k \in DOMAIN DATASET_TO_INTEGER}

\* Gold labels: entailment=0, neutral=1, contradiction=2; HANS has 0 and 1 only.
LabelsOf(dataset) ==
    IF dataset \in HANS_DATASET_INTEGER_IDENTIFIERS THEN 0..1 ELSE 0..2

HandcraftedType == [standard |-> 0, paraphrase |-> 1, negation |-> 2]
HandcraftedTypeValues == {HandcraftedType[k] : k \in DOMAIN HandcraftedType}

HEURISTIC_TO_INTEGER == [lexical_overlap |-> 0, subsequence |-> 1, constituent |-> 2]
HeuristicValues == {HEURISTIC_TO_INTEGER[k] : k \in DOMAIN HEURISTIC_TO_INTEGER}

----------------------------------------------------------------------------
(* Tensor helpers                                                          *)

\* A Python bool used as a number.
B2I(b) == IF b THEN 1 ELSE 0

RECURSIVE SumSeq(_)
SumSeq(q) == IF q = <<>> THEN 0 ELSE q[1] + SumSeq(Tail(q))

\* tensor.mean() / ndarray.mean(): an exact fraction, 0/0 for no element.
Mean(q) == Frac(SumSeq(q), Len(q))

\* torch.argmax over the last dimension: the 0-based index of the first maximum.
Argmax(row) ==
    CHOOSE i \in 0..(Len(row) - 1) :
        /\ \A j \in 1..Len(row) : row[j] <= row[i + 1]
        /\ \A j \in 1..i : row[j] < row[i + 1]

\* F.one_hot(label, num_classes)
OneHot(label, num_classes) == [c \in 1..num_classes |-> B2I(c - 1 = label)]

\* prob.gather(-1, label): the entry at the (0-based) label; torch raises a
\* RuntimeError for an index outside the row.
GatherInRange(row, label) == label + 1 \in 1..Len(row)
Gather(row, label) == IF GatherInRange(row, label) THEN row[label + 1] ELSE -1

\* prob.log() of one entry: finite for positive mass, -inf for 0.
Log(p) == IF p > 0 THEN "finite" ELSE "-inf"

----------------------------------------------------------------------------
(* BertForNLI._step                                                        *)

\* A softmax row sums to 1 (= ProbOne units of 1e-9).
ProbOne == 1000000000
\* The additive epsilon 1e-9 of the HANS-training contradiction slot.
ProbFixNan == 1

\* Loss criterion on (log-probabilities, one-hot gold): a decreasing function of
\* the probability in the gold slot, in steps of LossQuantum.
LossQuantum == 100000000
FocalLoss(prob, onehot) ==
    SumSeq([c \in 1..Len(prob) |-> onehot[c] * ((ProbOne - prob[c]) \div LossQuantum)])

\* Three slips of the remap below: the epsilon left out, the raw contradiction
\* mass left in its slot, and the remap applied to every HANS example.
NoFixNanRemap(dataset, prob_raw) ==
    LET is_hans_train == dataset = DATASET_TO_INTEGER["hans_train"] IN
    <<prob_raw[1],
      prob_raw[2] + B2I(is_hans_train) * prob_raw[3],
      B2I(~is_hans_train) * prob_raw[3]>>
KeepContradictionRemap(dataset, prob_raw) ==
    LET is_hans_train == dataset = DATASET_TO_INTEGER["hans_train"] IN
    <<prob_raw[1],
      prob_raw[2] + B2I(is_hans_train) * prob_raw[3],
      prob_raw[3] + B2I(is_hans_train) * ProbFixNan>>
AnyHansRemap(dataset, prob_raw) ==
    LET is_hans == dataset \in HANS_DATASET_INTEGER_IDENTIFIERS IN
    <<prob_raw[1],
      prob_raw[2] + B2I(is_hans) * prob_raw[3],
      B2I(~is_hans) * prob_raw[3] + B2I(is_hans) * ProbFixNan>>
\* Lines 435-441: the three-way probabilities of one example, with the
\* contradiction mass moved to the neutral slot for a HANS-training example.
HansTrainRemap(dataset, prob_raw) ==
    LET is_hans_train == dataset = DATASET_TO_INTEGER["hans_train"]
        prob_entailment == prob_raw[1]
        prob_neutral == prob_raw[2] + B2I(is_hans_train) * prob_raw[3]
        prob_contradiction_raw == B2I(~is_hans_train) * prob_raw[3]
        prob_contradiction_fix_nan == B2I(is_hans_train) * ProbFixNan
        prob_contradiction == prob_contradiction_raw + prob_contradiction_fix_nan
    IN <<prob_entailment, prob_neutral, prob_contradiction>>

\* A slip of the merge below: truncation without the sum.
TruncateOnly(prob) == <<prob[1], prob[2]>>
\* Lines 460-461: prob[:, 1] += prob[:, 2]; prob = prob[:, :2]
HansValidationMerge(prob) == <<prob[1], prob[2] + prob[3]>>

\* A slip of the choice below: the merge decided example by example.
PerExampleMerge(b, i, prob) ==
    LET dataset == b.dataset[i] IN
    IF dataset = DATASET_TO_INTEGER["hans_validation"]
        THEN HansValidationMerge(prob) ELSE prob
\* Lines 457-461: the merge is decided by the dataset of the first example.
BertFinalProb(b, i, prob) ==
    LET dataset == b.dataset[1] IN
    IF dataset = DATASET_TO_INTEGER["hans_validation"]
        THEN HansValidationMerge(prob) ELSE prob

\* A slip of the choice below: the sentinel for every batch.
SentinelAlways(b) == [i \in 1..Len(b.idx) |-> -1]
\* Lines 472-475 (and 290-293): the heuristic column, or -1 for every example.
StepHeuristic(b) ==
    IF ~IsNone(b.heuristic) THEN b.heuristic[1]
    ELSE [i \in 1..Len(b.idx) |-> -1]

\* The outcome of _step: the results dictionary or the raised error, with the
\* local tensors prob (three-way, lines 441), logits (line 443) and prob after
\* the merge (prob_merged, line 461) kept for inspection.
StepReturn(results, locals) ==
    [kind |-> "return", exc |-> "", results |-> results, locals |-> locals]
StepRaise(exc, locals) ==
    [kind |-> "raise", exc |-> exc, results |-> <<>>, locals |-> locals]

Bert_step(b) ==
    LET n == Len(b.idx)
        onehot_labels == [i \in 1..n |-> OneHot(b.labels[i], 3)]
        prob3 == [i \in 1..n |-> HansTrainRemap(b.dataset[i], b.output[i].prob_raw)]
        loss == [i \in 1..n |-> FocalLoss(prob3[i], onehot_labels[i])]
        prob == [i \in 1..n |-> BertFinalProb(b, i, prob3[i])]
        true_prob == [i \in 1..n |-> Gather(prob[i], b.labels[i])]
        pred == [i \in 1..n |-> Argmax(prob[i])]
        true_pred == [i \in 1..n |-> B2I(pred[i] = b.labels[i])]
        locals == [prob |-> prob3,
                   logits |-> [i \in 1..n |-> [c \in 1..3 |-> Log(prob3[i][c])]],
                   prob_merged |-> prob]
    IN IF \E i \in 1..n : ~GatherInRange(prob[i], b.labels[i])
         THEN StepRaise("RuntimeError", locals)
       ELSE StepReturn(
        [loss |-> Mean(loss),
         acc |-> Mean(true_pred),
         count |-> n,
         datapoint_idx |-> b.idx,
         datapoint_dataset |-> b.dataset,
         datapoint_label |-> b.labels,
         datapoint_handcrafted_type |-> b.handcrafted_type,
         datapoint_heuristic |-> StepHeuristic(b),
         datapoint_loss |-> loss,
         datapoint_pred |-> pred,
         datapoint_true_pred |-> true_pred,
         datapoint_prob |-> prob,
         datapoint_true_prob |-> true_prob], locals)

----------------------------------------------------------------------------
(* T5ForNLI._step                                                          *)

\* Lines 285-287: the dataset test of the unimplemented HANS branch.
T5HansBranch(b) ==
    LET dataset == b.dataset[1] IN dataset \in HANS_DATASET_INTEGER_IDENTIFIERS

\* Line 269: pred = torch.full((batch_size,), -1), never overwritten.
T5Pred(b, i) == -1

T5_step(b) ==
    LET n == Len(b.idx)
        loss == [i \in 1..n |-> b.output[i].loss]
        pred == [i \in 1..n |-> T5Pred(b, i)]
        true_pred == [i \in 1..n |-> B2I(b.output[i].tokens_match)]
        true_prob == [i \in 1..n |-> b.output[i].true_prob]
        prob == [i \in 1..n |-> (-1) * (-1) * (-1)]
    IN IF T5HansBranch(b) THEN StepRaise("NotImplementedError", <<>>)
       ELSE StepReturn(
        [loss |-> Mean(loss),
         acc |-> Mean(true_pred),
         count |-> n,
         datapoint_idx |-> b.idx,
         datapoint_dataset |-> b.dataset,
         datapoint_label |-> b.labels,
         datapoint_handcrafted_type |-> b.handcrafted_type,
         datapoint_heuristic |-> StepHeuristic(b),
         datapoint_loss |-> loss,
         datapoint_pred |-> pred,
         datapoint_true_pred |-> true_pred,
         datapoint_prob |-> prob,
         datapoint_true_prob |-> true_prob], <<>>)

\* self._step of the instance's class.
ModelStep(c, b) == IF c = "BertForNLI" THEN Bert_step(b) ELSE T5_step(b)

----------------------------------------------------------------------------
(* One call of _step on one batch                                          *)

MaxBatch == 2
GridDen == 2
MaxT5Loss == 1

\* Softmax rows on a grid: three non-negative entries that sum to ProbOne.
ProbRows ==
    LET u == ProbOne \div GridDen IN
    {<<ab[1] * u, ab[2] * u, ProbOne - (ab[1] + ab[2]) * u>> :
        ab \in {x \in (0..GridDen) \X (0..GridDen) : x[1] + x[2] <= GridDen}}

\* Outputs of the forward pass for one example.
BertOutputs == [prob_raw : ProbRows]
T5Outputs ==
    {[tokens_match |-> m, loss |-> l, true_prob |-> IF m THEN ProbOne ELSE 0] :
        m \in BOOLEAN, l \in 0..MaxT5Loss}
OutputsOf(c) == IF c = "BertForNLI" THEN BertOutputs ELSE T5Outputs

\* A batch as the dictionary of columns the data loader collates.
Collate(rows, first_idx, has_heuristic) ==
    [idx |-> [i \in 1..Len(rows) |-> first_idx + i - 1],
     dataset |-> [i \in 1..Len(rows) |-> rows[i].dataset],
     labels |-> [i \in 1..Len(rows) |-> rows[i].labels],
     handcrafted_type |-> [i \in 1..Len(rows) |-> rows[i].handcrafted_type],
     heuristic |-> IF has_heuristic
                     THEN Some([i \in 1..Len(rows) |-> rows[i].heuristic])
                     ELSE None,
     output |-> [i \in 1..Len(rows) |-> rows[i].output]]

StepDatasets ==
    {DATASET_TO_INTEGER["mnli_train"], DATASET_TO_INTEGER["hans_train"],
     DATASET_TO_INTEGER["hans_validation"]}

StepRows(c) ==
    {r \in [dataset : StepDatasets, labels : 0..2,
            handcrafted_type : {HandcraftedType["standard"]},
            heuristic : {HEURISTIC_TO_INTEGER["subsequence"]},
            output : OutputsOf(c)] :
        r.labels \in LabelsOf(r.dataset)}

\* Only HANS examples carry a heuristic, so only a batch with one has the column.
StepBatches(c) ==
    {Collate(rows, 0,
             \E i \in 1..Len(rows) : rows[i].dataset \in HANS_DATASET_INTEGER_IDENTIFIERS) :
        rows \in UNION {[1..n -> StepRows(c)] : n \in 1..MaxBatch}}

\* BertForNLI._step
BertStep ==
    /\ cls = "BertForNLI"
    /\ step_out.kind = "pending"
    /\ step_out' = Bert_step(batch)
    /\ UNCHANGED <<cls, batch, confVars, epochVars, optVars, csvVars>>

\* T5ForNLI._step
T5Step ==
    /\ cls = "T5ForNLI"
    /\ step_out.kind = "pending"
    /\ step_out' = T5_step(batch)
    /\ UNCHANGED <<cls, batch, confVars, epochVars, optVars, csvVars>>

InitStep ==
    /\ cls \in Classes
    /\ batch \in StepBatches(cls)
    /\ step_out = Pending
    /\ IdleConf /\ IdleEpoch /\ IdleOpt /\ IdleCsv

NextStep == BertStep \/ T5Step

SpecStep == InitStep /\ [][NextStep]_vars

\* One call of _step on a batch with or without the "heuristic" column, the
\* column holding any heuristic; the forward pass is fixed to one outcome.
HeuristicOutputs(c) ==
    IF c = "BertForNLI" THEN {[prob_raw |-> <<ProbOne, 0, 0>>]}
    ELSE {[tokens_match |-> TRUE, loss |-> 0, true_prob |-> ProbOne]}

HeuristicRows(c) ==
    {r \in [dataset : StepDatasets, labels : 0..2,
            handcrafted_type : {HandcraftedType["standard"]},
            heuristic : HeuristicValues,
            output : HeuristicOutputs(c)] :
        r.labels \in LabelsOf(r.dataset)}

HeuristicBatches(c) ==
    {Collate(rows, 0, has_heuristic) :
        rows \in UNION {[1..n -> HeuristicRows(c)] : n \in 1..MaxBatch},
        has_heuristic \in BOOLEAN}

InitStepHeuristic ==
    /\ cls \in Classes
    /\ batch \in HeuristicBatches(cls)
    /\ step_out = Pending
    /\ IdleConf /\ IdleEpoch /\ IdleOpt /\ IdleCsv

SpecStepHeuristic == InitStepHeuristic /\ [][NextStep]_vars

----------------------------------------------------------------------------
(* Epoch end: _epoch_end, _log_mnli_epoch_end, _log_hans_epoch_end         *)

\* INTEGER_TO_DATASET[dataset]
INTEGER_TO_DATASET(d) ==
    CHOOSE k \in DOMAIN DATASET_TO_INTEGER : DATASET_TO_INTEGER[k] = d

\* self.log(key, value): the last value logged under a key stays.
Log1(L, key, value) ==
    {e \in L : e.key # key} \cup {[key |-> key, value |-> value]}

RECURSIVE LogAll(_, _)
LogAll(L, entries) ==
    IF entries = <<>> THEN L
    ELSE LogAll(Log1(L, entries[1].key, entries[1].value), Tail(entries))

\* self.log of several metrics with distinct keys.
LogSet(L, entries) ==
    {e \in L : \A x \in entries : x.key # e.key} \cup entries

\* Lines 64-78: _step_log, the per-step metrics of an MNLI or SNLI batch.
StepLog(L, prefix, results) ==
    LET dataset == results.datapoint_dataset[1]
        dataset_str == INTEGER_TO_DATASET(dataset) IN
    IF dataset \in MNLI_DATASET_INTEGER_IDENTIFIERS \cup SNLI_DATASET_INTEGER_IDENTIFIERS
      THEN LogAll(L,
             <<[key |-> <<prefix, dataset_str, "loss_step">>, value |-> results.loss],
               [key |-> <<prefix, dataset_str, "acc_step">>, value |-> results.acc],
               [key |-> <<prefix, dataset_str, "datapoint_count_step">>,
                value |-> Frac(results.count, 1)]>>)
      ELSE L

\* torch.cat of a list of one-dimensional (or row) tensors.
RECURSIVE Cat(_)
Cat(values) == IF values = <<>> THEN <<>> ELSE values[1] \o Cat(Tail(values))

\* array[mask] for a boolean mask array: the selected entries, in order.
RECURSIVE Masked(_, _)
Masked(arr, mask) ==
    IF arr = <<>> THEN <<>>
    ELSE (IF mask[1] THEN <<arr[1]>> ELSE <<>>) \o Masked(Tail(arr), Tail(mask))

DatapointKeys ==
    {"datapoint_idx", "datapoint_dataset", "datapoint_label",
     "datapoint_handcrafted_type", "datapoint_heuristic", "datapoint_loss",
     "datapoint_pred", "datapoint_true_pred", "datapoint_prob", "datapoint_true_prob"}

\* Lines 104-112: every "datapoint" field concatenated over the batches.
CatResults(rl) ==
    [k \in DatapointKeys |-> Cat([b \in 1..Len(rl) |-> rl[b][k]])]

\* Lines 179-181: each name is bound to a one-element tuple (trailing comma).
Tuple1(x) == <<x>>
\* Line 184: a tuple compared with an int is False.
TupleEqInt(t, v) == FALSE
\* Lines 185-186: a tuple indexed by a bool is indexed by 0 or 1.
TupleIndex(t, mask) == t[B2I(mask) + 1]

\* Lines 184-186: the per-type loss and accuracy of one category.
HandcraftedTypeMeans(results, value) ==
    LET handcrafted_types == Tuple1(results.datapoint_handcrafted_type)
        losses == Tuple1(results.datapoint_loss)
        true_preds == Tuple1(results.datapoint_true_pred)
        mask == TupleEqInt(handcrafted_types, value) IN
    [loss |-> Mean(TupleIndex(losses, mask)),
     acc |-> Mean(TupleIndex(true_preds, mask))]

\* Lines 178-197: _log_mnli_epoch_end logs a pair for every category.
LogMnliEpochEnd(L, prefix, dataset_str, results) ==
    LogSet(L, UNION {
        LET m == HandcraftedTypeMeans(results, HandcraftedType[name]) IN
            {[key |-> <<prefix, "HandcraftedType", dataset_str, name, "loss">>,
              value |-> m.loss],
             [key |-> <<prefix, "HandcraftedType", dataset_str, name, "accuracy">>,
              value |-> m.acc]}
        : name \in DOMAIN HandcraftedType})

\* Lines 211-216: the mask of one (label, heuristic) pair; an empty one is skipped.
HansMask(results, target_label, heuristic_idx) ==
    [i \in 1..Len(results.datapoint_idx) |->
        /\ results.datapoint_heuristic[i] = heuristic_idx
        /\ results.datapoint_label[i] = target_label]
HansSkip(mask) == SumSeq([i \in 1..Len(mask) |-> B2I(mask[i])]) = 0

HansLabelDescriptions == <<"entailment", "non_entailment">>

\* Lines 199-221: _log_hans_epoch_end
LogHansEpochEnd(L, prefix, dataset_str, results) ==
    LogSet(L, UNION {
        LET mask == HansMask(results, t, HEURISTIC_TO_INTEGER[h])
            hits == [j \in 1..Len(Masked(results.datapoint_pred, mask)) |->
                        B2I(Masked(results.datapoint_pred, mask)[j]
                            = Masked(results.datapoint_label, mask)[j])]
        IN IF HansSkip(mask) THEN {}
           ELSE {[key |-> <<prefix, "Hans_loss", HansLabelDescriptions[t + 1], h>>,
                  value |-> Mean(Masked(results.datapoint_loss, mask))],
                 [key |-> <<prefix, "Hans_acc", HansLabelDescriptions[t + 1], h>>,
                  value |-> Mean(hits)]}
        : t \in 0..1, h \in DOMAIN HEURISTIC_TO_INTEGER})

EpochReturn(results) == [kind |-> "return", exc |-> "", results |-> results]
EpochRaise(exc, results) == [kind |-> "raise", exc |-> exc, results |-> results]

\* Lines 129-131: the accuracy and its cross-check.
CrossCheckHolds(results) ==
    LET n == Len(results.datapoint_idx)
        acc == Mean(results.datapoint_true_pred)
        hits == [i \in 1..n |-> B2I(results.datapoint_pred[i] = results.datapoint_label[i])]
    IN FracEq(acc, Mean(hits))

\* Lines 99-145: _epoch_end; the pair of its outcome and the logged metrics.
EpochEnd(L, prefix, rl) ==
    LET dataset == rl[1].datapoint_dataset[1]
        dataset_str == INTEGER_TO_DATASET(dataset)
        results == CatResults(rl)
        n == Len(results.datapoint_idx)
        loss == Mean(results.datapoint_loss)
        acc == Mean(results.datapoint_true_pred)
        L1 == LogAll(L,
             <<[key |-> <<prefix, dataset_str, "loss_epoch">>, value |-> loss],
               [key |-> <<prefix, dataset_str, "acc_epoch">>, value |-> acc],
               [key |-> <<prefix, dataset_str, "datapoint_count_epoch">>,
                value |-> Frac(n, 1)]>>)
        L2 == IF dataset \in MNLI_DATASET_INTEGER_IDENTIFIERS
                              \cup SNLI_DATASET_INTEGER_IDENTIFIERS
                THEN LogMnliEpochEnd(L1, prefix, dataset_str, results) ELSE L1
        L3 == IF dataset \in HANS_DATASET_INTEGER_IDENTIFIERS
                THEN LogHansEpochEnd(L2, prefix, dataset_str, results) ELSE L2
    IN IF ~(n = Len(results.datapoint_loss) /\ n = Len(results.datapoint_true_pred))
         THEN [out |-> EpochRaise("AssertionError", results), logged |-> L]
       ELSE IF ~CrossCheckHolds(results)
         THEN [out |-> EpochRaise("AssertionError", results), logged |-> L]
       ELSE [out |-> EpochReturn(results), logged |-> L3]

----------------------------------------------------------------------------
(* One epoch of one data loader: steps, then the epoch end                 *)

MaxEpochExamples == 3

\* The examples of an epoch come from one data loader, hence one dataset; the
\* forward pass puts all mass on one class (Bert) or matches the target or not (T5).
EpochOutputs(c) ==
    IF c = "BertForNLI"
      THEN {[prob_raw |-> <<ProbOne, 0, 0>>], [prob_raw |-> <<0, ProbOne, 0>>]}
      ELSE {o \in T5Outputs : o.loss = B2I(~o.tokens_match)}

EpochRows(c, d) ==
    [dataset : {d}, labels : 0..1,
     handcrafted_type : IF d \in HANS_DATASET_INTEGER_IDENTIFIERS
                          THEN {HandcraftedType["standard"]}
                          ELSE {HandcraftedType["standard"], HandcraftedType["negation"]},
     heuristic : IF d \in HANS_DATASET_INTEGER_IDENTIFIERS
                   THEN {HEURISTIC_TO_INTEGER["lexical_overlap"],
                         HEURISTIC_TO_INTEGER["constituent"]}
                   ELSE {HEURISTIC_TO_INTEGER["lexical_overlap"]},
     output : EpochOutputs(c)]

\* The batches a loader of dataset d may yield next; only HANS has "heuristic".
EpochBatches(c, d, first_idx, room) ==
    {Collate(rows, first_idx, d \in HANS_DATASET_INTEGER_IDENTIFIERS) :
        rows \in UNION {[1..n -> EpochRows(c, d)] :
                          n \in 1..(IF room < MaxBatch THEN room ELSE MaxBatch)}}

Collected == SumSeq([b \in 1..Len(results_list) |-> Len(results_list[b].datapoint_idx)])
LoaderDataset ==
    IF results_list = <<>> THEN StepDatasets ELSE {results_list[1].datapoint_dataset[1]}

\* Lines 54-62: training_step / validation_step: _step, _step_log, and the
\* trainer keeps the returned results for the epoch end.
RunStep(prefix) ==
    /\ epoch_out.kind = "pending"
    /\ step_out.kind # "raise"
    /\ Collected < MaxEpochExamples
    /\ \E d \in LoaderDataset :
         \E b \in EpochBatches(cls, d, Collected, MaxEpochExamples - Collected) :
            LET out == ModelStep(cls, b) IN
            /\ batch' = b
            /\ step_out' = out
            /\ IF out.kind = "return"
                 THEN /\ results_list' = Append(results_list, out.results)
                      /\ logged' = StepLog(logged, prefix, out.results)
                 ELSE UNCHANGED <<results_list, logged>>
    /\ UNCHANGED <<cls, epoch_out, split, confVars, optVars, csvVars>>

TrainingStep == split = "Train" /\ RunStep("Train")
ValidationStep == split = "Valid" /\ RunStep("Valid")

\* Lines 170-176: training_epoch_end / validation_epoch_end call _epoch_end.
RunEpochEnd(prefix) ==
    /\ epoch_out.kind = "pending"
    /\ step_out.kind # "raise"
    /\ results_list # <<>>
    /\ LET e == EpochEnd(logged, prefix, results_list) IN
         /\ epoch_out' = e.out
         /\ logged' = e.logged
    /\ UNCHANGED <<cls, batch, step_out, results_list, split, confVars, optVars, csvVars>>

TrainingEpochEnd == split = "Train" /\ RunEpochEnd("Train")
ValidationEpochEnd == split = "Valid" /\ RunEpochEnd("Valid")

InitEpoch ==
    /\ cls \in Classes
    /\ split \in {"Train", "Valid"}
    /\ results_list = <<>> /\ logged = {} /\ epoch_out = Pending
    /\ IdleConf /\ IdleStep /\ IdleOpt /\ IdleCsv

NextEpoch == TrainingStep \/ ValidationStep \/ TrainingEpochEnd \/ ValidationEpochEnd

SpecEpoch == InitEpoch /\ [][NextEpoch]_vars

\* Shorthands for the claims about one call of BertForNLI._step.
BertCalled == cls = "BertForNLI" /\ step_out.kind # "pending"
BertReturned == cls = "BertForNLI" /\ step_out.kind = "return"
Rows == 1..Len(batch.idx)
IsHansTrain(i) == batch.dataset[i] = DATASET_TO_INTEGER["hans_train"]
IsHansValidation(i) == batch.dataset[i] = DATASET_TO_INTEGER["hans_validation"]
Raw(i) == batch.output[i].prob_raw

\* C5: in BertForNLI._step on a HANS validation batch, every HANS validation
\* example with three-way probabilities (p_ent, p_neu, p_con) gets the vector
\* (p_ent, p_neu + p_con); datapoint_true_prob is its entry at the two-way gold
\* label, datapoint_pred is 0 or 1, and it is 0 exactly when p_ent is the larger
\* entry (argmax takes the first maximum, so a tie gives 0).
C5_HansValidationTwoWay ==
    (cls = "BertForNLI" /\ step_out.kind # "pending" /\ IsHansValidation(1)) =>
        /\ (\A i \in Rows : IsHansValidation(i)) => step_out.kind = "return"
        /\ step_out.kind = "return" =>
             \A i \in Rows : IsHansValidation(i) =>
                LET two == <<Raw(i)[1], Raw(i)[2] + Raw(i)[3]>> IN
                /\ step_out.results.datapoint_prob[i] = two
                /\ step_out.results.datapoint_true_prob[i] = two[batch.labels[i] + 1]
                /\ step_out.results.datapoint_pred[i] \in {0, 1}
                /\ step_out.results.datapoint_pred[i] = 0 <=> two[1] >= two[2]

\* Witness of C5: a returned HANS validation batch with a non-entailment example
\* whose contradiction mass is positive and counted in datapoint_true_prob.
C5_Witness ==
    /\ BertReturned /\ IsHansValidation(1)
    /\ \E i \in Rows :
          /\ IsHansValidation(i) /\ batch.labels[i] = 1 /\ Raw(i)[3] > 0
          /\ step_out.results.datapoint_true_prob[i] = Raw(i)[2] + Raw(i)[3]
          /\ step_out.results.datapoint_pred[i] = 1

\* C6 as stated: for every HANS example processed by BertForNLI._step the entries
\* of its probability vector after remapping sum to at most 1, for the
\* two-component vector of a HANS validation example and for the epsilon-fixed
\* vector of a HANS training example.
C6_HansProbSumAtMostOne ==
    BertCalled =>
        /\ \A i \in Rows : IsHansTrain(i) =>
              SumSeq(step_out.locals.prob[i]) <= ProbOne
        /\ (step_out.kind = "return" /\ IsHansValidation(1)) =>
              \A i \in Rows : IsHansValidation(i) =>
                 SumSeq(step_out.results.datapoint_prob[i]) <= ProbOne

\* C6 amended: the two-component vector of a HANS validation example sums to at
\* most 1 (exactly 1); the epsilon-fixed vector of a HANS training example sums
\* to exactly 1 + 1e-9, one epsilon above 1.
C6_HansProbSumAmended ==
    BertCalled =>
        /\ \A i \in Rows : IsHansTrain(i) =>
              SumSeq(step_out.locals.prob[i]) = ProbOne + ProbFixNan
        /\ (step_out.kind = "return" /\ IsHansValidation(1)) =>
              \A i \in Rows : IsHansValidation(i) =>
                 /\ Len(step_out.results.datapoint_prob[i]) = 2
                 /\ SumSeq(step_out.results.datapoint_prob[i]) = ProbOne
                 /\ SumSeq(step_out.results.datapoint_prob[i]) <= ProbOne

\* Witness of C6: a call with a HANS training example that has raw contradiction
\* mass, and a returned HANS validation batch (one state for each half).
C6_Witness ==
    /\ BertReturned
    /\ \E i \in Rows : IsHansTrain(i) /\ Raw(i)[3] > 0
    /\ IsHansValidation(1) /\ Raw(1)[3] > 0

\* C7: in BertForNLI._step, for every HANS training example the raw contradiction
\* probability is removed from the contradiction slot and carried by the neutral
\* slot (neutral = raw neutral + raw contradiction), the contradiction slot holds
\* exactly the epsilon 1e-9 > 0, and the logarithm of every slot with positive
\* mass (the contradiction slot included) is finite.
C7_HansTrainEpsilonSlot ==
    BertCalled =>
        \A i \in Rows : IsHansTrain(i) =>
            LET prob == step_out.locals.prob[i]
                logits == step_out.locals.logits[i] IN
            /\ prob[1] = Raw(i)[1]
            /\ prob[2] = Raw(i)[2] + Raw(i)[3]
            /\ prob[3] = ProbFixNan
            /\ prob[3] > 0
            /\ logits[3] = "finite"
            /\ \A c \in 1..3 : prob[c] > 0 => logits[c] = "finite"

\* Witness of C7: a HANS training example with positive raw contradiction mass
\* has been processed.
C7_Witness ==
    /\ BertCalled
    /\ \E i \in Rows :
          /\ IsHansTrain(i) /\ Raw(i)[3] > 0 /\ Raw(i)[2] > 0
          /\ step_out.locals.prob[i][2] > Raw(i)[2]

\* C12: in _step of both models, when the batch carries no "heuristic" field
\* every example's datapoint_heuristic is the sentinel -1, and when it carries
\* one, datapoint_heuristic is that field unchanged; in both cases the array has
\* one entry per example of the batch.
C12_HeuristicOrSentinel ==
    step_out.kind = "return" =>
        LET heuristic == step_out.results.datapoint_heuristic IN
        /\ Len(heuristic) = Len(batch.idx)
        /\ DOMAIN heuristic = Rows
        /\ IsNone(batch.heuristic) => \A i \in Rows : heuristic[i] = -1
        /\ ~IsNone(batch.heuristic) =>
              \A i \in Rows : heuristic[i] = batch.heuristic[1][i]

\* Witness of C12: T5ForNLI._step has returned the results of a batch whose
\* "heuristic" column holds two different heuristics.
C12_Witness ==
    /\ cls = "T5ForNLI" /\ step_out.kind = "return"
    /\ ~IsNone(batch.heuristic)
    /\ \E i, j \in Rows : batch.heuristic[1][i] # batch.heuristic[1][j]
    /\ step_out.results.datapoint_heuristic = batch.heuristic[1]

\* C15: in BertForNLI._step the merge and truncation to two components is
\* decided once per batch from the dataset of the first example, the
\* HANS-training remap per example: in a batch mixing datasets every example is
\* truncated to two components if and only if the first example is from the HANS
\* validation split, whatever its own dataset, and an example gets the
\* epsilon-fixed contradiction slot if and only if it is from the HANS training
\* split itself.
C15_MergePerBatchRemapPerExample ==
    BertCalled =>
        \A i \in Rows :
            LET prob3 == step_out.locals.prob[i]
                prob == step_out.locals.prob_merged[i] IN
            /\ Len(prob) = 2 <=> IsHansValidation(1)
            /\ Len(prob) = 3 <=> ~IsHansValidation(1)
            /\ IsHansValidation(1) => prob = <<prob3[1], prob3[2] + prob3[3]>>
            /\ ~IsHansValidation(1) => prob = prob3
            /\ step_out.kind = "return" => step_out.results.datapoint_prob[i] = prob
            /\ IsHansTrain(i) =>
                  prob3 = <<Raw(i)[1], Raw(i)[2] + Raw(i)[3], ProbFixNan>>
            /\ ~IsHansTrain(i) => prob3 = Raw(i)

\* Witness of C15: a returned batch mixing datasets, led by a HANS validation
\* example: its HANS training example got the epsilon-fixed slot and was
\* truncated to two components like the first example.
C15_Witness ==
    /\ BertReturned /\ Len(batch.idx) = 2
    /\ IsHansValidation(1) /\ IsHansTrain(2) /\ Raw(2)[3] > 0
    /\ Len(step_out.results.datapoint_prob[2]) = 2
    /\ step_out.locals.prob[2][3] = ProbFixNan

\* The loss of one example on a probability vector and a gold label.
LossOn(prob, label) == FocalLoss(prob, OneHot(label, 3))

\* C16: in BertForNLI._step the per-example loss is computed from the three-way
\* vector before the HANS-validation merge: for a HANS validation example the
\* loss uses the raw three-way probabilities against the one-hot of the two-way
\* gold label (a non-entailment example is scored on the neutral probability
\* alone), while datapoint_true_prob and datapoint_pred use the merged vector;
\* and for every example not from the HANS training split the vector used for
\* the loss is the raw softmax output unchanged.
C16_LossBeforeMerge ==
    BertCalled =>
        \A i \in Rows :
            /\ ~IsHansTrain(i) =>
                  /\ step_out.locals.prob[i] = Raw(i)
                  /\ step_out.locals.logits[i] = [c \in 1..3 |-> Log(Raw(i)[c])]
            /\ step_out.kind = "return" =>
                  LET r == step_out.results
                      merged == <<Raw(i)[1], Raw(i)[2] + Raw(i)[3]>> IN
                  /\ r.datapoint_loss[i] = LossOn(step_out.locals.prob[i], batch.labels[i])
                  /\ ~IsHansTrain(i) =>
                        r.datapoint_loss[i] = LossOn(Raw(i), batch.labels[i])
                  /\ (IsHansValidation(1) /\ IsHansValidation(i)) =>
                        /\ batch.labels[i] = 1 =>
                              r.datapoint_loss[i] = (ProbOne - Raw(i)[2]) \div LossQuantum
                        /\ r.datapoint_true_prob[i] = merged[batch.labels[i] + 1]
                        /\ r.datapoint_pred[i] = Argmax(merged)

\* Witness of C16: a HANS validation non-entailment example with contradiction
\* mass: the loss on the neutral probability alone differs from the loss the
\* merged vector would give.
C16_Witness ==
    /\ BertReturned /\ IsHansValidation(1)
    /\ \E i \in Rows :
          /\ IsHansValidation(i) /\ batch.labels[i] = 1 /\ Raw(i)[3] > 0
          /\ step_out.results.datapoint_loss[i]
                # (ProbOne - (Raw(i)[2] + Raw(i)[3])) \div LossQuantum
          /\ step_out.results.datapoint_true_prob[i] = Raw(i)[2] + Raw(i)[3]

AnyExampleIsHans ==
    \E i \in Rows : batch.dataset[i] \in HANS_DATASET_INTEGER_IDENTIFIERS

\* C10: T5ForNLI._step raises NotImplementedError and returns no results for
\* every batch that contains examples of a HANS dataset, and returns a results
\* dictionary without raising for every batch of MNLI/SNLI examples only.
C10_T5RaisesOnAnyHansExample ==
    (cls = "T5ForNLI" /\ step_out.kind # "pending") =>
        /\ AnyExampleIsHans =>
              /\ step_out.kind = "raise" /\ step_out.exc = "NotImplementedError"
              /\ step_out.results = <<>>
        /\ ~AnyExampleIsHans => step_out.kind = "return"

----------------------------------------------------------------------------
(* Claims about the epoch end                                              *)

EpochEnded == epoch_out.kind # "pending"
EpochReturned == epoch_out.kind = "return"
Epoch == epoch_out.results
EpochRowIds == 1..Len(Epoch.datapoint_idx)
EpochDataset == Epoch.datapoint_dataset[1]
EpochIsMnliSnli ==
    EpochDataset \in MNLI_DATASET_INTEGER_IDENTIFIERS \cup SNLI_DATASET_INTEGER_IDENTIFIERS
EpochIsHans == EpochDataset \in HANS_DATASET_INTEGER_IDENTIFIERS
Logged(key) == \E e \in logged : e.key = key
ValueOf(key) == (CHOOSE e \in logged : e.key = key).value

\* C2: for every epoch-end aggregation over the results of _step of either class,
\* the mean of datapoint_true_pred equals the fraction of examples whose
\* datapoint_pred equals datapoint_label, so the cross-check assertion of
\* _epoch_end never fails.
C2_CrossCheckNeverFails ==
    EpochEnded =>
        /\ epoch_out.kind = "return"
        /\ FracEq(Mean(Epoch.datapoint_true_pred),
                  Mean([i \in EpochRowIds |->
                          B2I(Epoch.datapoint_pred[i] = Epoch.datapoint_label[i])]))

\* The examples of one handcrafted-type category, as a boolean mask.
TypeMask(value) == [i \in EpochRowIds |-> Epoch.datapoint_handcrafted_type[i] = value]
TypeHasExample(value) == \E i \in EpochRowIds : TypeMask(value)[i]

\* C3: in _log_mnli_epoch_end, for every handcrafted-type category (that has an
\* example), the logged per-type loss and accuracy are the means of datapoint_loss
\* and datapoint_true_pred over exactly the examples of that category.
C3_PerTypeMeansOverCategory ==
    (EpochReturned /\ EpochIsMnliSnli) =>
        \A name \in DOMAIN HandcraftedType :
            LET ds == INTEGER_TO_DATASET(EpochDataset)
                mask == TypeMask(HandcraftedType[name]) IN
            TypeHasExample(HandcraftedType[name]) =>
                /\ Logged(<<split, "HandcraftedType", ds, name, "loss">>)
                /\ FracEq(ValueOf(<<split, "HandcraftedType", ds, name, "loss">>),
                          Mean(Masked(Epoch.datapoint_loss, mask)))
                /\ FracEq(ValueOf(<<split, "HandcraftedType", ds, name, "accuracy">>),
                          Mean(Masked(Epoch.datapoint_true_pred, mask)))

\* C4: at epoch end every breakdown whose mask selects no example is skipped and
\* no logged breakdown is the mean of an empty selection: a HANS (label,
\* heuristic) pair is logged if and only if some example has that label and that
\* heuristic, and a handcrafted-type category is logged if and only if some
\* example of the epoch has that category.
C4_EmptyBreakdownsSkipped ==
    EpochReturned =>
        /\ EpochIsHans =>
              \A t \in 0..1, h \in DOMAIN HEURISTIC_TO_INTEGER :
                 LET has == \E i \in EpochRowIds :
                               /\ Epoch.datapoint_label[i] = t
                               /\ Epoch.datapoint_heuristic[i] = HEURISTIC_TO_INTEGER[h]
                     kl == <<split, "Hans_loss", HansLabelDescriptions[t + 1], h>>
                     ka == <<split, "Hans_acc", HansLabelDescriptions[t + 1], h>>
                 IN /\ Logged(kl) <=> has
                    /\ Logged(ka) <=> has
                    /\ has => ~IsNaN(ValueOf(kl)) /\ ~IsNaN(ValueOf(ka))
        /\ EpochIsMnliSnli =>
              \A name \in DOMAIN HandcraftedType :
                 LET ds == INTEGER_TO_DATASET(EpochDataset)
                     kl == <<split, "HandcraftedType", ds, name, "loss">>
                     ka == <<split, "HandcraftedType", ds, name, "accuracy">>
                 IN /\ Logged(kl) <=> TypeHasExample(HandcraftedType[name])
                    /\ Logged(ka) <=> TypeHasExample(HandcraftedType[name])

\* The examples of the epoch, batch by batch, as the steps returned them.
BatchIds == 1..Len(results_list)
BatchSize(b) == Len(results_list[b].datapoint_idx)
TotalExamples == SumSeq([b \in BatchIds |-> BatchSize(b)])
\* The position in the concatenation of example j of batch b.
Position(b, j) == SumSeq([a \in 1..(b - 1) |-> BatchSize(a)]) + j
\* The sum of a per-example field over all examples of all batches.
TotalOf(key) == SumSeq([b \in BatchIds |-> SumSeq(results_list[b][key])])
EpochKey(name) == <<split, INTEGER_TO_DATASET(EpochDataset), name>>

\* C11: in _epoch_end, for any list of per-batch results with arbitrary batch
\* sizes, every per-example field is the concatenation of that field over the
\* batches in order, all per-example arrays have the same length n, the total
\* number of examples, the logged count is n, and the logged epoch loss and
\* accuracy are the means over all n examples, each example weighted equally.
C11_EpochConcatAndEqualWeightMeans ==
    EpochEnded =>
        /\ \A k \in DatapointKeys :
              /\ Len(Epoch[k]) = TotalExamples
              /\ \A b \in BatchIds : \A j \in 1..BatchSize(b) :
                    Epoch[k][Position(b, j)] = results_list[b][k][j]
        /\ Logged(EpochKey("datapoint_count_epoch"))
        /\ Logged(EpochKey("loss_epoch"))
        /\ Logged(EpochKey("acc_epoch"))
        /\ FracEq(ValueOf(EpochKey("datapoint_count_epoch")), Frac(TotalExamples, 1))
        /\ FracEq(ValueOf(EpochKey("loss_epoch")),
                  Frac(TotalOf("datapoint_loss"), TotalExamples))
        /\ FracEq(ValueOf(EpochKey("acc_epoch")),
                  Frac(TotalOf("datapoint_true_pred"), TotalExamples))

----------------------------------------------------------------------------
(* get_optimizer (mutils.py)                                               *)
(* A string is a sequence of symbols: single characters, and the optimizer *)
(* and parameter names as atoms (they hold neither ',' nor '=').           *)

Digits == {"0", "1"}
DigitValue(ch) == IF ch = "1" THEN 1 ELSE 0

\* s.find(ch): the 0-based index of the first occurrence, or -1.
Find(str, ch) ==
    IF \E i \in 1..Len(str) : str[i] = ch
      THEN (CHOOSE i \in 1..Len(str) : str[i] = ch /\ \A j \in 1..(i - 1) : str[j] # ch) - 1
      ELSE -1

\* s.split(sep)
RECURSIVE Split(_, _)
Split(str, sep) ==
    LET at == Find(str, sep) IN
    IF at = -1 THEN <<str>>
    ELSE <<SubSeq(str, 1, at)>> \o Split(SubSeq(str, at + 2, Len(str)), sep)

\* Line 94: re.match("^[+-]?(\d+(\.\d*)?|\.\d+)$", value) as an automaton over
\* the symbols; Python's "$" also matches just before a final newline.
RegexStep(state, ch) ==
    IF state = "start" /\ ch \in {"+", "-"} THEN "signed"
    ELSE IF state \in {"start", "signed", "int"} /\ ch \in Digits THEN "int"
    ELSE IF state = "int" /\ ch = "." THEN "int_dot"
    ELSE IF state \in {"int_dot"} /\ ch \in Digits THEN "int_dot"
    ELSE IF state \in {"start", "signed"} /\ ch = "." THEN "dot"
    ELSE IF state \in {"dot", "dot_digits"} /\ ch \in Digits THEN "dot_digits"
    ELSE IF state \in {"int", "int_dot", "dot_digits"} /\ ch = "\n" THEN "end_newline"
    ELSE "fail"

RECURSIVE RegexRun(_, _)
RegexRun(state, str) ==
    IF str = <<>> THEN state ELSE RegexRun(RegexStep(state, str[1]), Tail(str))

RegexMatch(value) ==
    RegexRun("start", value) \in {"int", "int_dot", "dot_digits", "end_newline"}

\* Line 95: float(value) of a matched value, as an exact fraction.
RECURSIVE DigitsValue(_)
DigitsValue(str) ==
    IF str = <<>> THEN 0
    ELSE 10 * DigitsValue(SubSeq(str, 1, Len(str) - 1)) + DigitValue(str[Len(str)])

RECURSIVE Pow10(_)
Pow10(k) == IF k = 0 THEN 1 ELSE 10 * Pow10(k - 1)

Float(value) ==
    LET stripped == IF value # <<>> /\ value[Len(value)] = "\n"
                      THEN SubSeq(value, 1, Len(value) - 1) ELSE value
        signed == stripped # <<>> /\ stripped[1] \in {"+", "-"}
        sign == IF signed /\ stripped[1] = "-" THEN -1 ELSE 1
        body == IF signed THEN Tail(stripped) ELSE stripped
        dot == Find(body, ".")
        whole == IF dot = -1 THEN body ELSE SubSeq(body, 1, dot)
        frac == IF dot = -1 THEN <<>> ELSE SubSeq(body, dot + 2, Len(body))
    IN Frac(sign * (DigitsValue(whole) * Pow10(Len(frac)) + DigitsValue(frac)),
            Pow10(Len(frac)))

OptReturn(optim_fn, optim_params) ==
    [kind |-> "return", exc |-> "", optim_fn |-> optim_fn, optim_params |-> optim_params]
OptRaise(exc) ==
    [kind |-> "raise", exc |-> exc, optim_fn |-> "", optim_params |-> <<>>]

\* Lines 91-95: the parameters parsed left to right; the first bad one raises.
RECURSIVE ParseParams(_, _)
ParseParams(pieces, optim_params) ==
    IF pieces = <<>> THEN [ok |-> TRUE, optim_params |-> optim_params]
    ELSE LET split_x == Split(pieces[1], "=") IN
         IF Len(split_x) # 2 THEN [ok |-> FALSE, optim_params |-> <<>>]
         ELSE IF ~RegexMatch(split_x[2]) THEN [ok |-> FALSE, optim_params |-> <<>>]
         ELSE ParseParams(Tail(pieces),
                          (split_x[1] :> Float(split_x[2])) @@ optim_params)

\* Lines 100-118: the optimizer class of a method name, "" for an unknown one.
OptimFn(method) ==
    IF method = <<"adadelta">> THEN "Adadelta"
    ELSE IF method = <<"adagrad">> THEN "Adagrad"
    ELSE IF method = <<"adam">> THEN "Adam"
    ELSE IF method = <<"adamax">> THEN "Adamax"
    ELSE IF method = <<"asgd">> THEN "ASGD"
    ELSE IF method = <<"rmsprop">> THEN "RMSprop"
    ELSE IF method = <<"rprop">> THEN "Rprop"
    ELSE IF method = <<"sgd">> THEN "SGD"
    ELSE ""

\* Line 121: the constructor arguments of torch.optim's classes after
\* (self, params), as names of the parameter alphabet.
ExpectedArgs(optim_fn) ==
    IF optim_fn = "Adadelta" THEN {<<"lr">>, <<"rho">>, <<"eps">>, <<"weight_decay">>}
    ELSE IF optim_fn = "Adagrad"
        THEN {<<"lr">>, <<"lr_decay">>, <<"weight_decay">>, <<"eps">>}
    ELSE IF optim_fn = "Adam"
        THEN {<<"lr">>, <<"betas">>, <<"eps">>, <<"weight_decay">>, <<"amsgrad">>}
    ELSE IF optim_fn = "Adamax" THEN {<<"lr">>, <<"betas">>, <<"eps">>, <<"weight_decay">>}
    ELSE IF optim_fn = "ASGD"
        THEN {<<"lr">>, <<"lambd">>, <<"alpha">>, <<"t0">>, <<"weight_decay">>}
    ELSE IF optim_fn = "RMSprop"
        THEN {<<"lr">>, <<"alpha">>, <<"eps">>, <<"weight_decay">>, <<"momentum">>,
              <<"centered">>}
    ELSE IF optim_fn = "Rprop" THEN {<<"lr">>, <<"etas">>, <<"step_sizes">>}
    ELSE IF optim_fn = "SGD"
        THEN {<<"lr">>, <<"momentum">>, <<"dampening">>, <<"weight_decay">>,
              <<"nesterov">>}
    ELSE {}

\* Lines 81-127
get_optimizer(str) ==
    LET comma == Find(str, ",")
        method == IF comma # -1 THEN SubSeq(str, 1, comma) ELSE str
        parsed == IF comma # -1
                    THEN ParseParams(Split(SubSeq(str, comma + 2, Len(str)), ","), <<>>)
                    ELSE [ok |-> TRUE, optim_params |-> <<>>]
        optim_fn == OptimFn(method)
    IN IF ~parsed.ok THEN OptRaise("AssertionError")
       ELSE IF optim_fn = "" THEN OptRaise("Exception")
       ELSE IF optim_fn = "SGD" /\ <<"lr">> \notin DOMAIN parsed.optim_params
         THEN OptRaise("AssertionError")
       ELSE IF ~(\A k \in DOMAIN parsed.optim_params : k \in ExpectedArgs(optim_fn))
         THEN OptRaise("Exception")
       ELSE OptReturn(optim_fn, parsed.optim_params)

----------------------------------------------------------------------------
(* One call of get_optimizer                                               *)

MaxValueLen == 3
MaxParams == 2

ValueAlphabet == {"0", "1", ".", "-", "e", "\n"}
Values == UNION {[1..n -> ValueAlphabet] : n \in 0..MaxValueLen}
Methods == {<<"adam">>, <<"sgd">>, <<"foo">>}
ParamNames == {<<"lr">>, <<"momentum">>, <<"zz">>}

\* Well-formed and malformed pieces for the strings with several parameters.
SmallPieces ==
    {name \o <<"=">> \o value :
        name \in ParamNames \cup {<<>>}, value \in {<<"1">>, <<"1", "e">>}}
    \cup ParamNames \cup {<<>>, <<"lr", "=", "1", "=", "1">>}

RECURSIVE JoinPieces(_)
JoinPieces(pieces) ==
    IF pieces = <<>> THEN <<>> ELSE <<",">> \o pieces[1] \o JoinPieces(Tail(pieces))

OptStrings ==
    {method \o <<",">> \o name \o <<"=">> \o value :
        method \in Methods, name \in ParamNames, value \in Values}
    \cup {method \o JoinPieces(pieces) :
            method \in Methods,
            pieces \in UNION {[1..n -> SmallPieces] : n \in 0..MaxParams}}

GetOptimizer ==
    /\ opt_out.kind = "pending"
    /\ opt_out' = get_optimizer(opt_s)
    /\ UNCHANGED <<cls, opt_s, confVars, stepVars, epochVars, csvVars>>

InitOpt ==
    /\ cls = "BertForNLI"
    /\ opt_s \in OptStrings
    /\ opt_out = Pending
    /\ IdleConf /\ IdleStep /\ IdleEpoch /\ IdleCsv

NextOpt == GetOptimizer

SpecOpt == InitOpt /\ [][NextOpt]_vars

\* The parameters of the optimizer string: the comma-separated pieces after the
\* method, each "name=value".
HasParams == Find(opt_s, ",") # -1
ParamPieces == Split(SubSeq(opt_s, Find(opt_s, ",") + 2, Len(opt_s)), ",")
OptMethod == IF HasParams THEN SubSeq(opt_s, 1, Find(opt_s, ",")) ELSE opt_s
PieceHasValue(p) == Find(p, "=") # -1
PieceName(p) == SubSeq(p, 1, Find(p, "="))
PieceValue(p) == SubSeq(p, Find(p, "=") + 2, Len(p))

\* A numeric literal: an optional sign, then digits with at most one '.', at
\* least one digit, and nothing else.
IsNumericLiteral(v) ==
    LET body == IF v # <<>> /\ v[1] \in {"+", "-"} THEN Tail(v) ELSE v IN
    /\ \A i \in 1..Len(body) : body[i] \in Digits \cup {"."}
    /\ Cardinality({i \in 1..Len(body) : body[i] = "."}) <= 1
    /\ \E i \in 1..Len(body) : body[i] \in Digits

SomeValueNotNumeric ==
    HasParams /\ \E i \in 1..Len(ParamPieces) :
        PieceHasValue(ParamPieces[i]) /\ ~IsNumericLiteral(PieceValue(ParamPieces[i]))
SomeNameNotAccepted ==
    HasParams /\ \E i \in 1..Len(ParamPieces) :
        /\ PieceHasValue(ParamPieces[i])
        /\ PieceName(ParamPieces[i]) \notin ExpectedArgs(OptimFn(OptMethod))
OptRejected ==
    opt_out.kind = "raise" /\ opt_out.optim_fn = "" /\ opt_out.optim_params = <<>>

\* C8: get_optimizer raises, and returns no (optimizer, parameters) pair, for
\* every optimizer string in which some parameter value is not a numeric literal
\* and for every one in which some parameter name is not among the accepted
\* constructor arguments of the selected optimizer.
C8_RejectsNonNumericAndUnknownNames ==
    opt_out.kind # "pending" =>
        /\ SomeValueNotNumeric => OptRejected
        /\ SomeNameNotAccepted => OptRejected

----------------------------------------------------------------------------
(* The CSV writers of mutils.py                                            *)
(* The text of the file is a sequence of symbols: the keys as atoms, the   *)
(* decimal digits of the values, and the characters ',', ';' and '\n'.     *)
(* A dictionary is the sequence of its [key, value] items in key order.    *)

DecimalDigits == <<"0", "1", "2", "3", "4", "5", "6", "7", "8", "9">>

\* str(value) of an integer.
RECURSIVE Str(_)
Str(value) ==
    IF value < 0 THEN <<"-">> \o Str(0 - value)
    ELSE IF value < 10 THEN <<DecimalDigits[value + 1]>>
    ELSE Str(value \div 10) \o <<DecimalDigits[(value % 10) + 1]>>

\* key in d (for a piece of text as the key), d[key] and d.keys() of a dictionary.
HasKey(d, field) == \E i \in 1..Len(d) : <<d[i].key>> = field
GetItem(d, key) == (CHOOSE item \in {d[i] : i \in 1..Len(d)} : item.key = key).value
Keys(d) == [i \in 1..Len(d) |-> d[i].key]

\* open(outputfile, 'a'): the file exists afterwards, its text is kept.
OpenAppend(f) == [exists |-> TRUE, text |-> f.text]
\* A slip of the test below: the size of the file ignored.
SizeIgnored(f) == TRUE
\* os.stat(outputfile).st_size == 0
SizeIsZero(f) == Len(f.text) = 0

CsvReturn(f) == [kind |-> "return", exc |-> "", file |-> f]
CsvRaise(exc, f) == [kind |-> "raise", exc |-> exc, file |-> f]

\* Lines 56-61: the header of write_to_csv; every key of params is followed
\* by ',', the keys of scores are separated by ','.
RECURSIVE ParamsHeader(_)
ParamsHeader(params_dict) ==
    IF params_dict = <<>> THEN <<>>
    ELSE <<params_dict[1].key, ",">> \o ParamsHeader(Tail(params_dict))
RECURSIVE ScoresHeader(_)
ScoresHeader(scores) ==
    IF scores = <<>> THEN <<>>
    ELSE <<scores[1].key>> \o (IF Len(scores) > 1 THEN <<",">> ELSE <<>>)
         \o ScoresHeader(Tail(scores))

\* Lines 64-66: next(csv.reader(f, delimiter=';')), the fields of the first
\* line; a blank line has no field.
FirstRow(text, delimiter) ==
    LET line == Split(text, "\n")[1] IN
    IF line = <<>> THEN <<>> ELSE Split(line, delimiter)

\* Lines 70-77: the values of the header fields, written one by one; a field
\* that is no key of params or scores raises after the writes before it.
RECURSIVE WriteValues(_, _, _, _, _)
WriteValues(text, headers, i, params_dict, scores) ==
    IF i > Len(headers) THEN [ok |-> TRUE, text |-> text]
    ELSE LET key == headers[i]
             ending == IF i - 1 < Len(headers) - 1 THEN <<";">> ELSE <<>> IN
         IF HasKey(params_dict, key)
           THEN WriteValues(text \o Str(GetItem(params_dict, key[1])) \o ending,
                            headers, i + 1, params_dict, scores)
         ELSE IF HasKey(scores, key)
           THEN WriteValues(text \o Str(GetItem(scores, key[1])) \o ending,
                            headers, i + 1, params_dict, scores)
         ELSE [ok |-> FALSE, text |-> text]

\* Lines 45-78
write_to_csv(scores, params, f) ==
    LET params_dict == params
        opened == OpenAppend(f)
        header == IF SizeIsZero(opened)
                    THEN ParamsHeader(params_dict) \o ScoresHeader(scores) \o <<"\n">>
                    ELSE <<>>
        text1 == opened.text \o header
        headers == FirstRow(text1, ";")
        values == WriteValues(text1, headers, 1, params_dict, scores)
    IN IF ~values.ok
         THEN CsvRaise("AssertionError", [exists |-> TRUE, text |-> values.text])
       ELSE CsvReturn([exists |-> TRUE, text |-> values.text \o <<"\n">>])

----------------------------------------------------------------------------
(* Calls of write_to_csv on one output file                                *)

MaxCsvCalls == 2

CsvValues == {0, 1}
ParamKeys == {"lr", "seed"}
ScoreKeys == {"acc", "loss"}

\* The sequences of distinct keys over a set of names, in any order.
KeySeqs(names) ==
    {q \in UNION {[1..n -> names] : n \in 0..Cardinality(names)} :
        \A i, j \in 1..Len(q) : i # j => q[i] # q[j]}

\* The dictionaries with the given keys, in the given order.
Dicts(keys, values) ==
    {[i \in 1..Len(keys) |-> [key |-> keys[i], value |-> v[i]]] :
        v \in [1..Len(keys) -> values]}

\* A file that is missing, or present and empty.
FreshFiles == {[exists |-> FALSE, text |-> <<>>], [exists |-> TRUE, text |-> <<>>]}

CsvCount == IF csv_call.kind = "pending" THEN 0 ELSE csv_call.n

\* The keys of a call: any for the first call, those of the call before after it.
ParamKeySeqs ==
    IF csv_call.kind = "pending" THEN KeySeqs(ParamKeys) ELSE {Keys(csv_call.params)}
ScoreKeySeqs ==
    IF csv_call.kind = "pending" THEN KeySeqs(ScoreKeys) ELSE {Keys(csv_call.scores)}

WriteToCsv ==
    /\ CsvCount < MaxCsvCalls
    /\ \E pk \in ParamKeySeqs, sk \in ScoreKeySeqs :
         \E params \in Dicts(pk, CsvValues), scores \in Dicts(sk, CsvValues) :
            LET out == write_to_csv(scores, params, outputfile) IN
            /\ outputfile' = out.file
            /\ csv_call' = [kind |-> out.kind, exc |-> out.exc,
                            scores |-> scores, params |-> params,
                            before |-> outputfile.text, n |-> CsvCount + 1]
    /\ UNCHANGED <<cls, confVars, stepVars, epochVars, optVars>>

InitScoresCsv ==
    /\ cls = "BertForNLI"
    /\ outputfile \in FreshFiles
    /\ csv_call = Pending
    /\ IdleConf /\ IdleStep /\ IdleEpoch /\ IdleOpt

NextScoresCsv == WriteToCsv

SpecScoresCsv == InitScoresCsv /\ [][NextScoresCsv]_vars

\* The lines of a text, without their final '\n'.
Lines(text) ==
    LET pieces == Split(text, "\n") IN
    IF pieces[Len(pieces)] = <<>> THEN SubSeq(pieces, 1, Len(pieces) - 1) ELSE pieces

\* The columns of the table: the parameters, then the scores.
CsvColumns == csv_call.params \o csv_call.scores

\* C13: write_to_csv, called on a missing or empty output file with a params
\* object and a scores dictionary that together have two or more keys, writes a
\* header line naming every parameter and every score, then appends one line
\* holding the value of each header column in header order, and completes
\* without raising; each later call with the same keys appends exactly one more
\* value line and no further header.
C13_WriteToCsvHeaderThenValueLines ==
    (csv_call.kind # "pending" /\ Len(CsvColumns) >= 2) =>
        LET old == Lines(csv_call.before)
            new == Lines(outputfile.text)
            value_line == Split(new[Len(new)], ";") IN
        /\ csv_call.kind = "return"
        /\ Len(new) = csv_call.n + 1
        /\ Split(new[1], ",") = [i \in 1..Len(CsvColumns) |-> <<CsvColumns[i].key>>]
        /\ SubSeq(new, 1, Len(new) - 1) = (IF csv_call.n = 1 THEN <<new[1]>> ELSE old)
        /\ value_line = [i \in 1..Len(CsvColumns) |-> Str(CsvColumns[i].value)]
        /\ \A i \in 2..Len(new) : new[i] # new[1]

----------------------------------------------------------------------------
(* write_results_to_csv, and calls of it on one output file                *)
(* The results are a dictionary of columns: the value of a key is the      *)
(* sequence of its per-example values.                                     *)

\* line[:-1]
DropLast(line) == IF line = <<>> THEN <<>> ELSE SubSeq(line, 1, Len(line) - 1)

\* Lines 32-35: the header line.
RECURSIVE ResultsHeader(_)
ResultsHeader(results) ==
    IF results = <<>> THEN <<>>
    ELSE <<results[1].key, ";">> \o ResultsHeader(Tail(results))

\* Lines 39-41: the line of example i (0-based).
RECURSIVE ResultsLine(_, _)
ResultsLine(results, i) ==
    IF results = <<>> THEN <<>>
    ELSE Str(results[1].value[i + 1]) \o <<";">> \o ResultsLine(Tail(results), i)

\* results[key][i] exists for every key.
RowInRange(results, i) == \A k \in 1..Len(results) : i + 1 <= Len(results[k].value)

\* Lines 38-42: the lines of the examples from i on; a column that is too
\* short raises IndexError after the lines before it.
RECURSIVE WriteRows(_, _, _, _)
WriteRows(text, results, i, results_len) ==
    IF i >= results_len THEN [ok |-> TRUE, text |-> text]
    ELSE IF ~RowInRange(results, i) THEN [ok |-> FALSE, text |-> text]
    ELSE WriteRows(text \o DropLast(ResultsLine(results, i)) \o <<"\n">>,
                   results, i + 1, results_len)

\* Lines 28-42
write_results_to_csv(results, f) ==
    LET opened == OpenAppend(f)
        header == IF SizeIsZero(opened)
                    THEN DropLast(ResultsHeader(results)) \o <<"\n">> ELSE <<>>
        results_len == Len(GetItem(results, "datapoint_idx"))
        rows == WriteRows(opened.text \o header, results, 0, results_len)
    IN IF ~rows.ok THEN CsvRaise("IndexError", [exists |-> TRUE, text |-> rows.text])
       ELSE CsvReturn([exists |-> TRUE, text |-> rows.text])

MaxCsvRows == 2

ResultKeys == {"datapoint_idx", "datapoint_loss"}

\* The results of one call: columns of one length, datapoint_idx counting the
\* examples from 0.
ResultsTables(keys) ==
    UNION {
        {[k \in 1..Len(keys) |->
            [key |-> keys[k],
             value |-> IF keys[k] = "datapoint_idx" THEN [i \in 1..n |-> i - 1]
                       ELSE cells[k]]] :
         cells \in [1..Len(keys) -> [1..n -> CsvValues]]}
        : n \in 0..MaxCsvRows}

ResultKeySeqs ==
    IF csv_call.kind = "pending"
      THEN {q \in KeySeqs(ResultKeys) : \E i \in 1..Len(q) : q[i] = "datapoint_idx"}
      ELSE {Keys(csv_call.results)}

WriteResultsToCsv ==
    /\ CsvCount < MaxCsvCalls
    /\ \E keys \in ResultKeySeqs :
         \E results \in ResultsTables(keys) :
            LET out == write_results_to_csv(results, outputfile) IN
            /\ outputfile' = out.file
            /\ csv_call' = [kind |-> out.kind, exc |-> out.exc, results |-> results,
                            before |-> outputfile.text, n |-> CsvCount + 1]
    /\ UNCHANGED <<cls, confVars, stepVars, epochVars, optVars>>

InitResultsCsv ==
    /\ cls = "BertForNLI"
    /\ outputfile \in FreshFiles
    /\ csv_call = Pending
    /\ IdleConf /\ IdleStep /\ IdleEpoch /\ IdleOpt

NextResultsCsv == WriteResultsToCsv

SpecResultsCsv == InitResultsCsv /\ [][NextResultsCsv]_vars

\* The header of the table and the line of example i (1-based), as fields.
HeaderFields == [k \in 1..Len(csv_call.results) |-> <<csv_call.results[k].key>>]
RowFields(i) ==
    [k \in 1..Len(csv_call.results) |-> Str(csv_call.results[k].value[i])]
RowCount == Len(GetItem(csv_call.results, "datapoint_idx"))

\* C14: over any sequence of write_results_to_csv calls on the same output file
\* (starting missing or empty) with the same keys, the file contains the header
\* line exactly once, as its first line, and each call appends exactly
\* len(results['datapoint_idx']) data lines after everything written by earlier
\* calls, each line holding the i-th value of every key in key order, separated
\* by ';'.
C14_ResultsCsvHeaderOnceRowsAppended ==
    csv_call.kind # "pending" =>
        LET old == Lines(csv_call.before)
            new == Lines(outputfile.text)
            kept == IF csv_call.n = 1 THEN 1 ELSE Len(old) IN
        /\ csv_call.kind = "return"
        /\ csv_call.n = 1 => old = <<>>
        /\ csv_call.n > 1 => SubSeq(new, 1, kept) = old
        /\ Split(new[1], ";") = HeaderFields
        /\ Cardinality({i \in 1..Len(new) : Split(new[i], ";") = HeaderFields}) = 1
        /\ Len(new) = kept + RowCount
        /\ \A i \in 1..RowCount : Split(new[kept + i], ";") = RowFields(i)
        /\ outputfile.text[Len(outputfile.text)] = "\n"

\* Witness of C14: a second call has appended two lines of two columns to a
\* file that held the header and the lines of the first call.
C14_Witness ==
    /\ csv_call.kind = "return" /\ csv_call.n = 2
    /\ Len(csv_call.results) = 2 /\ RowCount = 2
    /\ Len(Lines(csv_call.before)) >= 2
    /\ Len(Lines(outputfile.text)) = Len(Lines(csv_call.before)) + 2

====
